---------------------------- MODULE Spec2Model ----------------------------
(***************************************************************************)
(* A model of aci-pong: the measurement loop of app/aci-pong.py (one-shot  *)
(* container-instance jobs that probe webpages, one per target and pass)   *)
(* and the measurement workload measure/measure.py that runs inside a job. *)
(*                                                                         *)
(* Text is a sequence of one-character strings.  An optional value is a    *)
(* sequence of length at most one: None is <<>>, Some(v) is <<v>>.         *)
(***************************************************************************)
EXTENDS Integers, Sequences, FiniteSets, TLC

VARIABLES
    pc,                   \* position of the control flow
    webpages,             \* run_measurement_cycle: the list read for this pass
    idx,                  \* run_measurement_cycle: 1-based position of the for loop
    region,               \* run_measurement_cycle: region of the current attempt
    container_group_name, \* run_measurement_cycle: local, Unbound until first assigned
    now,                  \* the clock, counted from the start of the current attempt
    start_time,           \* wait_for_container_completion: start_time
    log_content,          \* run_measurement_cycle: log_content
    response_time_ms,     \* run_measurement_cycle: response_time_ms
    sink,                 \* webpage_response_time: the gauge's labelled samples
    job_state,            \* the current attempt's job as the loop sees it: Running when its
                          \* create returned, Terminated or TimedOut as the wait returns,
                          \* Error when a backend call raises into the handler of line 220
    calls,                \* state polls and log fetches issued by the current attempt
    n_create,             \* create calls issued in the current pass
    n_delete,             \* delete calls issued in the current pass
    last_call,            \* the most recent backend call of the current pass
    live,                 \* jobs of this pass the backend accepted that no delete has named
    file_error,           \* whether open() raised when this pass read the file
    stdout,               \* measure.py: lines printed to standard output
    stderr,               \* measure.py: lines printed to the error stream
    response,             \* measure.py: what requests.get came back with
    exit_code,            \* measure.py: exit status, None while running
    elapsed_ms            \* measure.py: value returned by measure_response_time

vars == <<pc, webpages, idx, region, container_group_name, now, start_time,
          log_content, response_time_ms, sink, job_state, calls, n_create,
          n_delete, last_call, live, file_error, response, stdout, stderr, exit_code,
          elapsed_ms>>

measureVars == <<response, stdout, stderr, exit_code, elapsed_ms>>

-----------------------------------------------------------------------------
(* Bounds of the model.                                                    *)

\* longest text drawn from Alphabet for parse_response_time
MaxLen == 4
\* most lines of the webpages file
MaxLines == 3
\* the GET of measure.py takes 0..MaxGetTicks microseconds
MaxGetTicks == 12

-----------------------------------------------------------------------------
(* Program constants.                                                      *)

MEASUREMENT_INTERVAL == 15
ACR_TIMEOUT == 180
POLL_SLEEP == 5

AZURE_REGIONS == {"eastus", "westus", "centralus", "northeurope", "westeurope",
                  "southeastasia", "eastasia"}

-----------------------------------------------------------------------------
(* Optional values.                                                        *)

None == <<>>
Some(v) == <<v>>
IsSome(o) == o # <<>>
Get(o) == o[1]

\* Outcome of a call: it returned a value or it raised.
Return(v) == [raised |-> FALSE, value |-> v]
Raise == [raised |-> TRUE, value |-> None]

-----------------------------------------------------------------------------
(* Text: str.splitlines, str.strip and float().                            *)

\* Characters at which str.splitlines breaks a line ("\r\n" counts once).
LineBreaks == {"\n", "\r", "\f"}

\* Characters str.strip removes and float() tolerates around the number.
Whitespace == {" ", "\t", "\n", "\r", "\f"}

DigitChars == <<"0", "1", "2", "3", "4", "5", "6", "7", "8", "9">>

IsDigit(c) == \E i \in 1..10 : DigitChars[i] = c

DigitVal(c) == (CHOOSE i \in 1..10 : DigitChars[i] = c) - 1

\* Index of the first element of s in set S, 0 when there is none.
FirstIn(s, S) ==
    IF \E i \in 1..Len(s) : s[i] \in S
    THEN CHOOSE i \in 1..Len(s) : s[i] \in S /\ \A j \in 1..(i - 1) : s[j] \notin S
    ELSE 0

RECURSIVE splitlines(_)
splitlines(s) ==
    IF s = <<>> THEN <<>>
    ELSE LET k == FirstIn(s, LineBreaks) IN
         IF k = 0 THEN <<s>>
         ELSE LET end == IF s[k] = "\r" /\ k < Len(s) /\ s[k + 1] = "\n"
                         THEN k + 1 ELSE k
              IN <<SubSeq(s, 1, k - 1)>> \o splitlines(SubSeq(s, end + 1, Len(s)))

RECURSIVE lstrip(_)
lstrip(s) == IF s # <<>> /\ Head(s) \in Whitespace THEN lstrip(Tail(s)) ELSE s

RECURSIVE rstrip(_)
rstrip(s) ==
    IF s # <<>> /\ s[Len(s)] \in Whitespace THEN rstrip(SubSeq(s, 1, Len(s) - 1)) ELSE s

strip(s) == rstrip(lstrip(s))

AllDigits(s) == \A i \in 1..Len(s) : IsDigit(s[i])

RECURSIVE DecimalValue(_)
DecimalValue(s) ==
    IF s = <<>> THEN 0 ELSE 10 * DecimalValue(SubSeq(s, 1, Len(s) - 1)) + DigitVal(s[Len(s)])

\* A finite float is (-1)^neg * m * 10^e with m not a multiple of 10; zero is m = 0, e = 0.
RECURSIVE Normal(_, _, _)
Normal(neg, m, e) ==
    IF m = 0 THEN [kind |-> "finite", neg |-> neg, m |-> 0, e |-> 0]
    ELSE IF m % 10 = 0 THEN Normal(neg, m \div 10, e + 1)
    ELSE [kind |-> "finite", neg |-> neg, m |-> m, e |-> e]

Infinity(neg) == [kind |-> "inf", neg |-> neg, m |-> 0, e |-> 0]
NaN == [kind |-> "nan", neg |-> FALSE, m |-> 0, e |-> 0]

LowerChar(c) ==
    CASE c = "I" -> "i" [] c = "N" -> "n" [] c = "F" -> "f" [] c = "A" -> "a"
      [] c = "T" -> "t" [] c = "Y" -> "y" [] c = "E" -> "e" [] OTHER -> c

LowerText(s) == [i \in 1..Len(s) |-> LowerChar(s[i])]

\* An optional sign followed by digits: the exponent of a float literal.
SignedInt(s) ==
    LET signed == s # <<>> /\ Head(s) \in {"+", "-"}
        d == IF signed THEN Tail(s) ELSE s
    IN IF d = <<>> \/ ~AllDigits(d) THEN None
       ELSE Some(IF signed /\ Head(s) = "-" THEN 0 - DecimalValue(d) ELSE DecimalValue(d))

\* float(text): Some(value), or None where Python raises ValueError.  The
\* digit-group separator "_" is not modelled: no text of the model holds one.
float(text) ==
    LET t == LowerText(strip(text))
        signed == t # <<>> /\ Head(t) \in {"+", "-"}
        neg == signed /\ Head(t) = "-"
        u == IF signed THEN Tail(t) ELSE t
        ke == FirstIn(u, {"e"})
        mant == IF ke = 0 THEN u ELSE SubSeq(u, 1, ke - 1)
        expo == IF ke = 0 THEN Some(0) ELSE SignedInt(SubSeq(u, ke + 1, Len(u)))
        kp == FirstIn(mant, {"."})
        int == IF kp = 0 THEN mant ELSE SubSeq(mant, 1, kp - 1)
        frac == IF kp = 0 THEN <<>> ELSE SubSeq(mant, kp + 1, Len(mant))
    IN IF u \in {<<"i", "n", "f">>, <<"i", "n", "f", "i", "n", "i", "t", "y">>}
         THEN Some(Infinity(neg))
       ELSE IF u = <<"n", "a", "n">> THEN Some(NaN)
       ELSE IF /\ AllDigits(int) /\ AllDigits(frac) /\ Len(int) + Len(frac) > 0
               /\ IsSome(expo)
         THEN Some(Normal(neg, DecimalValue(int \o frac), Get(expo) - Len(frac)))
       ELSE None

-----------------------------------------------------------------------------
(* parse_response_time.                                                    *)

\* The scan gives up at the first line float() rejects.
ScanFirstLineOnly(lines) ==
    IF lines = <<>> THEN None ELSE float(strip(Head(lines)))

\* lines 170-175: the first line float() accepts after trimming, None without one
RECURSIVE ScanLines(_)
ScanLines(lines) ==
    IF lines = <<>> THEN None
    ELSE LET value == float(strip(Head(lines))) IN
         IF IsSome(value) THEN value ELSE ScanLines(Tail(lines))

\* lines 170-175 on content, which is Some(text) or None when the backend hands
\* back no content: None has no splitlines and line 170 raises AttributeError
scan_log(content) ==
    IF ~IsSome(content) THEN Raise ELSE Return(ScanLines(splitlines(Get(content))))

\* lines 168-178: an exception of the scan is caught at line 176 and None returned
parse_response_time(content) ==
    IF scan_log(content).raised THEN Return(None) ELSE scan_log(content)

-----------------------------------------------------------------------------
(* The webpages file and read_webpages.                                    *)

\* Lines as f.readlines() yields them: two targets, one of them indented, and a blank line.
FileLines == {<<"a", "\n">>, <<" ", "b", " ", "\n">>, <<" ", "\n">>}

RECURSIVE SeqsUpTo(_, _)
SeqsUpTo(S, n) ==
    IF n = 0 THEN {<<>>}
    ELSE LET shorter == SeqsUpTo(S, n - 1) IN
         shorter \cup {Append(s, x) : s \in shorter, x \in S}

\* A file is None when open() raises, Some(lines) otherwise.
Files == {None} \cup {Some(f) : f \in SeqsUpTo(FileLines, MaxLines)}

RECURSIVE NonBlankStripped(_)
NonBlankStripped(lines) ==
    IF lines = <<>> THEN <<>>
    ELSE IF strip(Head(lines)) # <<>>
         THEN <<strip(Head(lines))>> \o NonBlankStripped(Tail(lines))
         ELSE NonBlankStripped(Tail(lines))

\* lines 88-90: open() raises on an unreadable file
read_file(file) == IF ~IsSome(file) THEN Raise ELSE Return(NonBlankStripped(Get(file)))

\* The exception of open() leaves read_webpages.
read_webpages_uncaught(file) == read_file(file)

\* lines 87-93: an exception is caught at line 91 and the empty list returned
read_webpages(file) == IF read_file(file).raised THEN Return(<<>>) ELSE read_file(file)

-----------------------------------------------------------------------------
(* The backend as the loop sees it.                                        *)

Unbound == 0

NoCall == [op |-> "none", name |-> Unbound, raised |-> FALSE]
Call(op, name, raised) == [op |-> op, name |-> name, raised |-> raised]

NoCalls == [get |-> 0, logs |-> 0]

\* What a state poll finds: no instance view yet, or a current state.
NoView == "<no instance view>"
PollResults == {NoView, "Waiting", "Running", "Terminated", "Exited"}

lower(s) ==
    CASE s = "Waiting" -> "waiting" [] s = "Running" -> "running"
      [] s = "Terminated" -> "terminated" [] s = "Exited" -> "exited" [] OTHER -> s

\* The state is compared as the backend spells it.
container_state_as_reported(result) == IF result = NoView THEN "" ELSE result

\* line 138: the lower-cased state, "" without an instance view
container_state(result) == IF result = NoView THEN "" ELSE lower(result)

IsTerminal(state) == state \in {"terminated", "exited"}

\* Log texts of a finished job.
Log42 == <<"4", "2", ".", "0">>
LogWarn583 == <<"m", "e", "m", "o", "r", "y", " ", "w", "a", "r", "n", "i", "n", "g", "\n", "5", "8", ".", "3">>
LogRefused == <<"e", "r", "r", "o", "r", ":", " ", "r", "e", "f", "u", "s", "e", "d", "\n">>
LogEmpty == <<>>
LogConnecting == <<"c", "o", "n", "n", "e", "c", "t", "i", "n", "g", ".", ".", ".", "\n", "1", "2", "3", ".", "4", "5", "\n", "e", "x", "t", "r", "a", "\n">>

\* logs.content: None, or one of the texts above
LogContents == {None} \cup {Some(t) : t \in {Log42, LogWarn583, LogRefused}}

\* The create call returns at once or blocks for one polling interval.
CreateBlocks == {0, POLL_SLEEP}

-----------------------------------------------------------------------------
(* The gauge webpage_response_time.                                        *)

Labels(target, reg, timestamp) == [target |-> target, region |-> reg, timestamp |-> timestamp]

\* labels(...).set(value): the child of that label combination is created or overwritten
GaugeSet(samples, labels, value) ==
    {s \in samples : s.labels # labels} \cup {[labels |-> labels, value |-> value]}

\* Line 15 binds the name datetime to the class datetime.datetime; line 213 reads
\* the attributes datetime and UTC of that name, which only the module has.
DatetimeName == "class"
AttributesOf(obj) ==
    IF obj = "module" THEN {"datetime", "UTC", "date", "time", "timedelta", "timezone"}
    ELSE {"now", "utcnow", "fromisoformat", "strptime", "min", "max"}

\* datetime.datetime.now(datetime.UTC).isoformat(): None when the lookup raises AttributeError
timestamp_now(t) ==
    IF {"datetime", "UTC"} \subseteq AttributesOf(DatetimeName)
    THEN Some(t) ELSE None

-----------------------------------------------------------------------------
(* app/aci-pong.py: main and run_measurement_cycle.                        *)

url == webpages[idx]

Init ==
    /\ pc = "main"
    /\ webpages = <<>>
    /\ idx = 1
    /\ region = ""
    /\ container_group_name = Unbound
    /\ now = 0
    /\ start_time = 0
    /\ log_content = None
    /\ response_time_ms = None
    /\ sink = {}
    /\ job_state = "None"
    /\ calls = NoCalls
    /\ n_create = 0
    /\ n_delete = 0
    /\ last_call = NoCall
    /\ live = {}
    /\ file_error = FALSE
    /\ response = None
    /\ stdout = <<>>
    /\ stderr = <<>>
    /\ exit_code = None
    /\ elapsed_ms = None

\* main, lines 240-242, and run_measurement_cycle up to the loop, lines 189-196:
\* a new pass reads the file; without targets it returns at once.
MainLoop ==
    /\ pc = "main"
    /\ \E file \in Files :
          LET read == read_webpages(file) IN
          /\ file_error' = ~IsSome(file)
          /\ webpages' = IF read.raised THEN <<>> ELSE read.value
          /\ pc' = IF read.raised THEN "crashed"
                   ELSE IF read.value = <<>> THEN "sleep" ELSE "for"
    /\ idx' = 1
    /\ region' = ""
    /\ container_group_name' = Unbound
    /\ now' = 0
    /\ start_time' = 0
    /\ log_content' = None
    /\ response_time_ms' = None
    /\ job_state' = "None"
    /\ calls' = NoCalls
    /\ n_create' = 0
    /\ n_delete' = 0
    /\ last_call' = NoCall
    /\ live' = {}
    /\ UNCHANGED <<sink, measureVars>>

\* Every attempt is sent to the same region.
ForNextPinnedRegion ==
    /\ pc = "for"
    /\ IF idx > Len(webpages)
       THEN /\ pc' = "sleep"
            /\ UNCHANGED <<region, now, start_time, log_content, response_time_ms,
                           job_state, calls>>
       ELSE /\ pc' = "create"
            /\ region' = "eastus"
            /\ now' = 0
            /\ start_time' = 0
            /\ log_content' = None
            /\ response_time_ms' = None
            /\ job_state' = "None"
            /\ calls' = NoCalls
    /\ UNCHANGED <<webpages, idx, container_group_name, sink, n_create,
                   n_delete, last_call, live, file_error, measureVars>>

\* lines 198-199: the loop takes the next target and draws its region, or the
\* pass returns.  The clock counts from the start of the attempt: the code
\* reads only differences of it within an attempt.
ForNext ==
    /\ pc = "for"
    /\ IF idx > Len(webpages)
       THEN /\ pc' = "sleep"
            /\ UNCHANGED <<region, now, start_time, log_content, response_time_ms,
                           job_state, calls>>
       ELSE /\ pc' = "create"
            /\ region' \in AZURE_REGIONS
            /\ now' = 0
            /\ start_time' = 0
            /\ log_content' = None
            /\ response_time_ms' = None
            /\ job_state' = "None"
            /\ calls' = NoCalls
    /\ UNCHANGED <<webpages, idx, container_group_name, sink, n_create,
                   n_delete, last_call, live, file_error, measureVars>>

\* What the two chained calls of lines 123-127 can do: begin_create_or_update
\* raises and the backend holds no job ("rejected"); the backend accepts the
\* job and .result() raises while waiting for it ("failed"); both return ("ok").
CreateOutcomes == {"rejected", "failed", "ok"}

\* line 202, create_container_group: the name is generated (line 100), the call
\* blocks until the backend answers, then the name is returned and bound; a
\* raise leaves the caller's name as it was and goes through the except clause
\* (line 220) to the finally clause.
Create ==
    /\ pc = "create"
    /\ \E outcome \in CreateOutcomes, block \in CreateBlocks :
          /\ now' = now + block
          /\ last_call' = Call("create", idx, outcome # "ok")
          /\ live' = IF outcome = "rejected" THEN live ELSE live \cup {idx}
          /\ IF outcome # "ok"
             THEN /\ pc' = "finally"
                  /\ job_state' = "Error"
                  /\ UNCHANGED <<container_group_name, start_time>>
             ELSE /\ pc' = "wait"
                  /\ job_state' = "Running"
                  /\ container_group_name' = idx
                  /\ start_time' = now + block
    /\ n_create' = n_create + 1
    /\ UNCHANGED <<webpages, idx, region, log_content, response_time_ms, sink,
                   calls, n_delete, file_error, measureVars>>

\* wait_for_container_completion, lines 136-142: one turn of the polling loop,
\* for one answer of the backend.
PollOutcome(raised, result) ==
    /\ pc = "wait"
    /\ now - start_time < ACR_TIMEOUT
    /\ last_call' = Call("get", container_group_name, raised)
    /\ IF raised
       THEN /\ pc' = "finally"
            /\ job_state' = "Error"
            /\ now' = now
       ELSE IF IsTerminal(container_state(result))
       THEN /\ pc' = "logs"
            /\ job_state' = "Terminated"
            /\ now' = now
       ELSE /\ pc' = "wait"
            /\ job_state' = job_state
            /\ now' = now + POLL_SLEEP
    /\ calls' = [calls EXCEPT !.get = @ + 1]
    /\ UNCHANGED <<webpages, idx, region, container_group_name, start_time,
                   log_content, response_time_ms, sink, n_create, n_delete,
                   live, file_error, measureVars>>

\* The loop still polls when exactly the whole budget has passed.
PollOffByOne ==
    \E raised \in BOOLEAN, result \in PollResults :
    /\ pc = "wait"
    /\ now - start_time <= ACR_TIMEOUT
    /\ last_call' = Call("get", container_group_name, raised)
    /\ IF raised
       THEN /\ pc' = "finally"
            /\ job_state' = "Error"
            /\ now' = now
       ELSE IF IsTerminal(container_state(result))
       THEN /\ pc' = "logs"
            /\ job_state' = "Terminated"
            /\ now' = now
       ELSE /\ pc' = "wait"
            /\ job_state' = job_state
            /\ now' = now + POLL_SLEEP
    /\ calls' = [calls EXCEPT !.get = @ + 1]
    /\ UNCHANGED <<webpages, idx, region, container_group_name, start_time,
                   log_content, response_time_ms, sink, n_create, n_delete,
                   live, file_error, measureVars>>

\* The loop polls again at once, without sleeping.
PollNoSleep ==
    \E raised \in BOOLEAN, result \in PollResults :
    /\ pc = "wait"
    /\ now - start_time < ACR_TIMEOUT
    /\ last_call' = Call("get", container_group_name, raised)
    /\ IF raised
       THEN /\ pc' = "finally"
            /\ job_state' = "Error"
            /\ now' = now
       ELSE IF IsTerminal(container_state(result))
       THEN /\ pc' = "logs"
            /\ job_state' = "Terminated"
            /\ now' = now
       ELSE /\ pc' = "wait"
            /\ job_state' = job_state
            /\ now' = now
    /\ calls' = [calls EXCEPT !.get = @ + 1]
    /\ UNCHANGED <<webpages, idx, region, container_group_name, start_time,
                   log_content, response_time_ms, sink, n_create, n_delete,
                   live, file_error, measureVars>>

Poll == \E raised \in BOOLEAN, result \in PollResults : PollOutcome(raised, result)

\* The loop fetches the log although the wait returned False.
TimeoutIgnored ==
    /\ pc = "wait"
    /\ ~(now - start_time < ACR_TIMEOUT)
    /\ pc' = "logs"
    /\ job_state' = "TimedOut"
    /\ UNCHANGED <<webpages, idx, region, container_group_name, now, start_time,
                   log_content, response_time_ms, sink, calls, n_create, n_delete,
                   last_call, live, file_error, measureVars>>

\* lines 136 and 143, then 205-207: the budget is spent, the wait returns False
\* and the loop continues with the next target through the finally clause.
Timeout ==
    /\ pc = "wait"
    /\ ~(now - start_time < ACR_TIMEOUT)
    /\ pc' = "finally"
    /\ job_state' = "TimedOut"
    /\ UNCHANGED <<webpages, idx, region, container_group_name, now, start_time,
                   log_content, response_time_ms, sink, calls, n_create, n_delete,
                   last_call, live, file_error, measureVars>>

\* line 210, get_container_logs.
GetLogs ==
    /\ pc = "logs"
    /\ \E raised \in BOOLEAN, content \in LogContents :
          /\ last_call' = Call("logs", container_group_name, raised)
          /\ IF raised
             THEN /\ pc' = "finally"
                  /\ job_state' = "Error"
                  /\ log_content' = log_content
             ELSE /\ pc' = "parse"
                  /\ job_state' = job_state
                  /\ log_content' = content
    /\ calls' = [calls EXCEPT !.logs = @ + 1]
    /\ UNCHANGED <<webpages, idx, region, container_group_name, now, start_time,
                   response_time_ms, sink, n_create, n_delete, live, file_error, measureVars>>

\* line 211 for each content the backend can hand back
ParsedLog == [content \in LogContents |-> parse_response_time(content)]

\* lines 211-221: parse the log (the call never raises); with a value, build the
\* timestamp and set the gauge.  An exception of line 213 is caught at line 220
\* before the gauge is set.
ParseAndRecord ==
    /\ pc = "parse"
    /\ response_time_ms' = ParsedLog[log_content].value
    /\ sink' = IF IsSome(ParsedLog[log_content].value) /\ IsSome(timestamp_now(now))
               THEN GaugeSet(sink, Labels(url, region, Get(timestamp_now(now))),
                             Get(ParsedLog[log_content].value))
               ELSE sink
    /\ pc' = "finally"
    /\ UNCHANGED <<webpages, idx, region, container_group_name, now, start_time,
                   log_content, job_state, calls, n_create, n_delete, last_call,
                   live, file_error, measureVars>>

\* A raising delete escapes both handlers and ends the process.
CleanupUncaught ==
    /\ pc = "finally"
    /\ IF container_group_name = Unbound
       THEN /\ pc' = "crashed"
            /\ UNCHANGED <<idx, region, now, start_time, log_content,
                           response_time_ms, calls, n_delete, last_call, live>>
       ELSE /\ \E raised \in BOOLEAN :
                  /\ last_call' = Call("delete", container_group_name, raised)
                  /\ pc' = IF raised THEN "crashed" ELSE "for"
                  /\ idx' = IF raised THEN idx ELSE idx + 1
            /\ n_delete' = n_delete + 1
            /\ live' = live \ {container_group_name}
            /\ region' = ""
            /\ now' = 0
            /\ start_time' = 0
            /\ log_content' = None
            /\ response_time_ms' = None
            /\ calls' = NoCalls
    /\ UNCHANGED <<webpages, container_group_name, sink, job_state, n_create,
                   file_error, measureVars>>

\* lines 222-227 and delete_container_group, lines 152-160.  While the name is
\* unbound, line 225 raises UnboundLocalError before any call is made, line 226
\* catches it and line 227 raises it again, outside every handler: the error
\* leaves run_measurement_cycle and main.  With a bound name the delete is
\* issued for that name, whichever attempt bound it; a raise of the call is
\* caught at line 159.  The attempt is over: the clock is rebased and the
\* locals that are assigned before they are read again are cleared.
Cleanup ==
    /\ pc = "finally"
    /\ IF container_group_name = Unbound
       THEN /\ pc' = "crashed"
            /\ UNCHANGED <<idx, region, now, start_time, log_content,
                           response_time_ms, calls, n_delete, last_call, live>>
       ELSE /\ \E raised \in BOOLEAN :
                  /\ last_call' = Call("delete", container_group_name, raised)
                  /\ pc' = "for"
                  /\ idx' = idx + 1
            /\ n_delete' = n_delete + 1
            /\ live' = live \ {container_group_name}
            /\ region' = ""
            /\ now' = 0
            /\ start_time' = 0
            /\ log_content' = None
            /\ response_time_ms' = None
            /\ calls' = NoCalls
    /\ UNCHANGED <<webpages, container_group_name, sink, job_state, n_create,
                   file_error, measureVars>>

\* main, lines 243-244.
Sleep ==
    /\ pc = "sleep"
    /\ pc' = "main"
    /\ now' = now + MEASUREMENT_INTERVAL
    /\ UNCHANGED <<webpages, idx, region, container_group_name, start_time,
                   log_content, response_time_ms, sink, job_state, calls, n_create,
                   n_delete, last_call, live, file_error, measureVars>>

Next ==
    \/ MainLoop
    \/ ForNext
    \/ Create
    \/ Poll
    \/ Timeout
    \/ GetLogs
    \/ ParseAndRecord
    \/ Cleanup
    \/ Sleep

Spec == Init /\ [][Next]_vars

\* Every call of the backend returns or raises and the clock advances: the
\* loop, single-threaded, always takes its next step.
FairSpec == Spec /\ WF_vars(Next)

-----------------------------------------------------------------------------
(* parse_response_time on its own, over every short text.                  *)

Alphabet == {"1", "0", ".", "-", "e", " ", "\n", "x"}

ParseInputs ==
    {None} \cup {Some(t) : t \in SeqsUpTo(Alphabet, MaxLen)
                                   \cup {LogEmpty, LogRefused, LogWarn583, LogConnecting}}

ParseInit ==
    /\ pc = "parse_call"
    /\ log_content \in ParseInputs
    /\ webpages = <<>>
    /\ idx = 1
    /\ region = ""
    /\ container_group_name = Unbound
    /\ now = 0
    /\ start_time = 0
    /\ response_time_ms = None
    /\ sink = {}
    /\ job_state = "None"
    /\ calls = NoCalls
    /\ n_create = 0
    /\ n_delete = 0
    /\ last_call = NoCall
    /\ live = {}
    /\ file_error = FALSE
    /\ response = None
    /\ stdout = <<>>
    /\ stderr = <<>>
    /\ exit_code = None
    /\ elapsed_ms = None

\* line 211 alone: response_time_ms = parse_response_time(log_content)
ParseCall ==
    /\ pc = "parse_call"
    /\ LET parsed == parse_response_time(log_content) IN
          /\ pc' = IF parsed.raised THEN "parse_raised" ELSE "parse_returned"
          /\ response_time_ms' = parsed.value
    /\ UNCHANGED <<webpages, idx, region, container_group_name, now, start_time,
                   log_content, sink, job_state, calls, n_create, n_delete, last_call, live, file_error,
                   measureVars>>

ParseNext == ParseCall

ParseSpec == ParseInit /\ [][ParseNext]_vars

-----------------------------------------------------------------------------
(* measure/measure.py.  The monotonic clock ticks in microseconds.         *)

Statuses == {200, 204, 301, 404, 503}

\* What requests.get comes back with: a response, or an exception.
GetOutcomes ==
    {[kind |-> "response", code |-> c] : c \in Statuses}
        \cup {[kind |-> k, code |-> 0] : k \in {"ConnectionError", "Timeout"}}

\* response.raise_for_status() raises HTTPError for the 4xx and 5xx codes
raise_for_status(r) == 400 <= r.code /\ r.code < 600

RECURSIVE Pow10(_)
Pow10(k) == IF k = 0 THEN 1 ELSE 10 * Pow10(k - 1)

RECURSIVE DigitsOf(_)
DigitsOf(n) ==
    IF n < 10 THEN <<DigitChars[n + 1]>>
    ELSE DigitsOf(n \div 10) \o <<DigitChars[(n % 10) + 1]>>

\* n as exactly k digits, zero-padded on the left
RECURSIVE Padded(_, _)
Padded(n, k) == IF k = 0 THEN <<>> ELSE Padded(n \div 10, k - 1) \o <<DigitChars[(n % 10) + 1]>>

\* str(x) of a float x >= 0 in the range Python prints without an exponent
str_float(x) ==
    IF x.e >= 0 THEN DigitsOf(x.m * Pow10(x.e)) \o <<".", "0">>
    ELSE DigitsOf(x.m \div Pow10(0 - x.e)) \o <<".">> \o Padded(x.m % Pow10(0 - x.e), 0 - x.e)

\* line 22: (end_time - start_time) * 1000, the clock readings being microseconds
elapsed_time_ms(start, end) == Normal(FALSE, end - start, -3)

MeasureInit ==
    /\ pc = "m_main"
    /\ log_content = None
    /\ webpages = <<>>
    /\ idx = 1
    /\ region = ""
    /\ container_group_name = Unbound
    /\ now = 0
    /\ start_time = 0
    /\ response_time_ms = None
    /\ sink = {}
    /\ job_state = "None"
    /\ calls = NoCalls
    /\ n_create = 0
    /\ n_delete = 0
    /\ last_call = NoCall
    /\ live = {}
    /\ file_error = FALSE
    /\ response = None
    /\ stdout = <<>>
    /\ stderr = <<>>
    /\ exit_code = None
    /\ elapsed_ms = None

\* lines 17-18: read the clock, issue the GET and wait for its outcome
MeasureGet ==
    /\ pc = "m_main"
    /\ start_time' = now
    /\ \E outcome \in GetOutcomes, ticks \in 0..MaxGetTicks :
          /\ response' = Some(outcome)
          /\ now' = now + ticks
    /\ pc' = "m_got"
    /\ UNCHANGED <<webpages, idx, region, container_group_name, log_content,
                   response_time_ms, sink, job_state, calls, n_create, n_delete,
                   last_call, live, file_error, stdout, stderr, exit_code, elapsed_ms>>

\* lines 20-26: the rest of measure_response_time
MeasureReturn ==
    /\ pc = "m_got"
    /\ IF Get(response).kind # "response" \/ raise_for_status(Get(response))
       THEN /\ stderr' = Append(stderr, <<"Error: ", Get(response)>>)
            /\ elapsed_ms' = None
       ELSE /\ stderr' = stderr
            /\ elapsed_ms' = Some(elapsed_time_ms(start_time, now))
    /\ pc' = "m_measured"
    /\ UNCHANGED <<webpages, idx, region, container_group_name, now, start_time,
                   log_content, response_time_ms, sink, job_state, calls, n_create,
                   n_delete, last_call, live, file_error, response, stdout, exit_code>>

\* main ends with status 0 whether or not the measurement failed.
MeasureExitAlwaysZero ==
    /\ pc = "m_measured"
    /\ stdout' = IF IsSome(elapsed_ms) THEN Append(stdout, str_float(Get(elapsed_ms)))
                 ELSE stdout
    /\ exit_code' = Some(0)
    /\ pc' = "m_exited"
    /\ UNCHANGED <<webpages, idx, region, container_group_name, now, start_time,
                   log_content, response_time_ms, sink, job_state, calls, n_create,
                   n_delete, last_call, live, file_error, response, stderr, elapsed_ms>>

\* main, lines 33-38: print the value and fall off the end, or sys.exit(1)
MeasureExit ==
    /\ pc = "m_measured"
    /\ IF IsSome(elapsed_ms)
       THEN /\ stdout' = Append(stdout, str_float(Get(elapsed_ms)))
            /\ exit_code' = Some(0)
       ELSE /\ stdout' = stdout
            /\ exit_code' = Some(1)
    /\ pc' = "m_exited"
    /\ UNCHANGED <<webpages, idx, region, container_group_name, now, start_time,
                   log_content, response_time_ms, sink, job_state, calls, n_create,
                   n_delete, last_call, live, file_error, response, stderr, elapsed_ms>>

MeasureNext ==
    \/ MeasureGet
    \/ MeasureReturn
    \/ MeasureExit

MeasureSpec == MeasureInit /\ [][MeasureNext]_vars

-----------------------------------------------------------------------------
(* Properties.                                                             *)

\* C1: a pass over N >= 1 targets issues exactly N create calls and exactly N
\* delete calls, one delete per attempt, whichever backend steps raise.  (Violated:
\* when the create call of the first target raises, no delete is issued and the
\* pass ends after one create call.)
C1_CreateAndDeletePerTarget ==
    /\ pc \in {"for", "sleep", "crashed"} => n_delete = n_create
    /\ pc \in {"sleep", "crashed"} /\ webpages # <<>> => n_create = Len(webpages)

\* C2: an error a backend call raises is caught within the handling of its
\* target, so the process never crashes.  (Violated: a raising create call of
\* the first target ends the process from the finally clause.)
C2_BackendErrorNeverCrashes == job_state = "Error" => pc # "crashed"

\* C3: an attempt whose job was accepted and terminated and whose log holds a
\* numeric line records a sample carrying the attempt's target and region and
\* the parsed value.  (Violated: line 213 raises before the gauge is set.)
C3_ParsedValueIsRecorded ==
    pc = "finally" /\ IsSome(response_time_ms) =>
        \E s \in sink : /\ s.labels.target = url
                        /\ s.labels.region = region
                        /\ s.value = Get(response_time_ms)

\* C4: when the budget is spent before a terminal state is seen, the attempt
\* ends as a timeout: its log is never fetched, no step of it changes the gauge,
\* and the delete of its job has been issued when the loop is back at its head.
C4_TimeoutSkipsLogAndStillDeletes ==
    /\ [](job_state = "TimedOut" =>
             /\ pc \in {"finally", "for", "sleep", "main"}
             /\ pc = "finally" => calls.logs = 0 /\ calls.get > 0
             /\ log_content = None /\ response_time_ms = None
             /\ pc # "finally" =>
                   /\ last_call.op = "delete"
                   /\ last_call.name = container_group_name
                   /\ container_group_name = idx - 1)
    /\ [][job_state' = "TimedOut" => sink' = sink]_vars

\* C4 witness: a timed-out attempt is over, its job's delete issued, and a
\* further target is still to be started.
C4_Witness ==
    /\ job_state = "TimedOut" /\ pc = "for" /\ idx <= Len(webpages)
    /\ last_call.op = "delete" /\ last_call.name = idx - 1

\* The lines of a text that float() accepts after trimming.
NumericLines(lines) == {i \in 1..Len(lines) : IsSome(float(strip(lines[i])))}

Min(S) == CHOOSE x \in S : \A y \in S : x <= y

\* C5: parse_response_time never raises; it returns the value of the first line
\* that parses as a float after trimming, whatever lines come before it, and
\* None when no line does (or there is no text at all).
C5_FirstNumericLine ==
    /\ pc # "parse_raised"
    /\ pc = "parse_returned" =>
          IF ~IsSome(log_content) THEN response_time_ms = None
          ELSE LET lines == splitlines(Get(log_content)) IN
               IF NumericLines(lines) = {} THEN response_time_ms = None
               ELSE response_time_ms = float(strip(lines[Min(NumericLines(lines))]))
    /\ pc = "parse_returned" /\ log_content = Some(LogConnecting) =>
          response_time_ms = Some(Normal(FALSE, 12345, -2))
    /\ pc = "parse_returned" /\ log_content \in {Some(LogRefused), Some(LogEmpty)} =>
          response_time_ms = None

\* C5 witness: the numeric line 58.3 is found behind a line of diagnostics.
C5_Witness ==
    /\ pc = "parse_returned" /\ log_content = Some(LogWarn583)
    /\ response_time_ms = Some(Normal(FALSE, 583, -1))

FailedDelete == last_call.op = "delete" /\ last_call.raised

\* C6: a raising delete call is not raised further: the step that issues it
\* leaves the gauge alone and moves on to the next target, and from there the
\* pass goes on and returns.
C6_DeleteFailureIsSwallowed ==
    /\ [][pc = "finally" /\ last_call'.op = "delete" /\ last_call'.raised =>
             pc' = "for" /\ idx' = idx + 1 /\ sink' = sink]_vars
    /\ [](FailedDelete => pc \in {"for", "create", "sleep", "main"})

\* C6 witness: a pass of two targets has returned although its last delete raised.
C6_Witness == pc = "sleep" /\ FailedDelete /\ n_delete = 2

\* C7: whatever fails, every pass that starts comes to its end and the next one
\* starts.  (Violated: after a raising create call of the first target the
\* process has crashed and no pass ever starts again.)
C7_PassesRepeatForever == (pc # "main") ~> (pc = "main")

\* C8: a pass whose file cannot be read or holds no target issues no backend
\* call and sets no sample, and the scheduler goes on to the next pass.
C8_NoTargetsNoCalls ==
    /\ [][pc = "main" /\ (file_error' \/ webpages' = <<>>) =>
             /\ pc' = "sleep" /\ webpages' = <<>> /\ sink' = sink
             /\ last_call' = NoCall /\ n_create' = 0 /\ n_delete' = 0]_vars
    /\ [][pc = "sleep" => pc' = "main" /\ sink' = sink /\ last_call' = last_call]_vars

\* C8 witness: the file could not be read and the pass is over without a call.
C8_Witness == pc = "sleep" /\ file_error /\ webpages = <<>> /\ last_call = NoCall

\* The GET succeeded: a response came back and raise_for_status accepted it.
GetSucceeded == Get(response).kind = "response" /\ Get(response).code < 400

InAttempt == pc \in {"create", "wait", "logs", "parse", "finally"}

\* C11: the region of every probe attempt is one of the static region set, and
\* whenever the loop is about to start an attempt, of whatever target and after
\* whatever earlier attempts and passes, each region of the set can be drawn.
C11_RegionDrawnFromStaticSet ==
    /\ InAttempt => region \in AZURE_REGIONS
    /\ pc = "for" /\ idx <= Len(webpages) =>
          \A r \in AZURE_REGIONS : ENABLED (ForNext /\ region' = r)

\* C11 witness: after a first attempt that is over, the second target of a
\* pass is sent to the last region of the list.
C11_Witness ==
    /\ pc = "create" /\ idx = 2 /\ n_delete = 1
    /\ region = "eastasia" /\ last_call.op = "delete"

\* Steps of the loop, told by the counters they move.
PollIssued == calls'.get = calls.get + 1

LogFetched == calls'.logs = calls.logs + 1

DeleteIssued == n_delete' = n_delete + 1

AttemptEnds == pc = "finally" /\ pc' # "finally"

\* C12: within one attempt a poll follows the returned create or another
\* poll, the log is fetched once and only after a poll that saw a terminal
\* state, the gauge is set only after the log fetch returned, and the attempt
\* ends with its one delete, after which it issues nothing.  (Violated: the
\* attempt whose create raised while no name was bound ends without a delete.)
C12_CallOrderWithinAttempt ==
    /\ [][PollIssued => /\ last_call.op \in {"create", "get"}
                        /\ ~last_call.raised
                        /\ last_call.name = idx
                        /\ calls.logs = 0]_vars
    /\ [][LogFetched => /\ last_call = Call("get", idx, FALSE)
                        /\ job_state = "Terminated"
                        /\ calls.get >= 1
                        /\ calls.logs = 0]_vars
    /\ [][sink' # sink => last_call = Call("logs", idx, FALSE) /\ calls.logs = 1]_vars
    /\ [][DeleteIssued => AttemptEnds]_vars
    /\ [][AttemptEnds => /\ DeleteIssued
                         /\ container_group_name = idx => calls.get >= 1]_vars

\* C13: a delete issued while an attempt is handled names the job that attempt
\* generated, a job the backend holds and no earlier delete has named; and when
\* the next target is started no accepted job is left without a delete.
\* (Violated: after a raising create the finally clause deletes under the name
\* an earlier attempt bound.)
C13_DeleteNamesJobOfItsAttempt ==
    /\ [][DeleteIssued => last_call'.name = idx /\ last_call'.name \in live]_vars
    /\ [](pc = "create" => live = {})

\* C14: the targets are handled one after the other, the create of a target
\* being issued when every earlier target of the pass has had its create and
\* its delete, so that the backend never holds two jobs no delete has named.
\* (Violated: a job accepted by a raising create is still held when the next
\* job is created.)
C14_OneJobAtATime ==
    /\ pc = "create" => n_create = idx - 1 /\ n_delete = idx - 1
    /\ Cardinality(live) <= 1


\* C15 as stated: the budget runs from the moment the create call is issued,
\* the start of the attempt's clock, so no poll starts 180 units or more after
\* it.  (Violated: start_time is read at line 135, after the create returned.)
C15_BudgetFromSubmission == [][PollIssued => now < ACR_TIMEOUT]_vars

\* C15, amended: the budget runs from the return of the create call, where the
\* wait reads start_time; no poll starts 180 units or more after that moment,
\* however long the create call was blocked.
C15_BudgetFromReturnOfCreate ==
    /\ [][pc = "create" /\ pc' = "wait" => start_time' = now']_vars
    /\ [][pc = "wait" => start_time' = start_time]_vars
    /\ [][PollIssued => now - start_time < ACR_TIMEOUT]_vars

\* C15 witness: the create call was blocked for 5 units, and a poll has been
\* issued 180 units after the create call was.
C15_Witness ==
    /\ pc = "finally" /\ last_call = Call("get", idx, TRUE)
    /\ start_time = POLL_SLEEP /\ now = ACR_TIMEOUT

\* C16: the wait ends after at most 180/5 polls: a turn that stays in the loop
\* has issued a poll and slept 5 units, the loop can always take a next step,
\* it returns False only when the budget is spent, which takes all 36 polls,
\* and it returns True exactly on a poll that starts within the budget and
\* observes Terminated or Exited.
C16_PollingLoopTerminates ==
    /\ [](calls.get <= ACR_TIMEOUT \div POLL_SLEEP)
    /\ [](pc = "wait" => ENABLED (Poll \/ Timeout))
    /\ [][pc = "wait" /\ pc' = "wait" => PollIssued /\ now' = now + POLL_SLEEP]_vars
    /\ [][pc = "wait" /\ job_state' = "TimedOut" =>
             /\ ~PollIssued
             /\ now - start_time >= ACR_TIMEOUT
             /\ calls.get = ACR_TIMEOUT \div POLL_SLEEP]_vars
    /\ [][pc = "wait" /\ pc' = "logs" =>
             /\ now - start_time < ACR_TIMEOUT
             /\ \E result \in {"Terminated", "Exited"} : PollOutcome(FALSE, result)]_vars
    /\ [][\A result \in {"Terminated", "Exited"} :
             PollOutcome(FALSE, result) => pc' = "logs"]_vars

\* C16 witness: 36 polls found the job running and the wait has returned False.
C16_Witness ==
    /\ pc = "finally" /\ job_state = "TimedOut"
    /\ calls.get = 36 /\ now - start_time = 36 * POLL_SLEEP

\* The transitions of an attempt's job that C17 lists: a poll without an
\* instance view or with another state than terminated/exited, in any case,
\* leaves it Running and the loop polling; a poll that sees such a state, and
\* nothing else, makes it Terminated; the spent budget, and nothing else,
\* TimedOut; a raising create, poll or log fetch, and nothing else, Error.
JobStateTransitions ==
    /\ [][\A result \in {NoView, "Waiting", "Running"} :
             PollOutcome(FALSE, result) => job_state' = "Running" /\ pc' = "wait"]_vars
    /\ [][\A result \in {"Terminated", "Exited"} :
             PollOutcome(FALSE, result) => job_state' = "Terminated"]_vars
    /\ [][job_state' = "Terminated" /\ job_state # "Terminated" =>
             /\ job_state = "Running"
             /\ \E result \in {"Terminated", "Exited"} : PollOutcome(FALSE, result)]_vars
    /\ [][job_state' = "TimedOut" /\ job_state # "TimedOut" =>
             /\ job_state = "Running" /\ pc = "wait"
             /\ now - start_time >= ACR_TIMEOUT
             /\ last_call' = last_call]_vars
    /\ [][job_state' = "Error" /\ job_state # "Error" =>
             /\ last_call'.raised /\ last_call'.op \in {"create", "get", "logs"}
             /\ n_create' + calls'.get + calls'.logs
                   = n_create + calls.get + calls.logs + 1]_vars

\* C17 as stated: the transitions above, and none of Terminated, TimedOut and
\* Error is left before the attempt is over.  (Violated: a raising log fetch
\* takes the job from Terminated to Error.)
C17_TerminalStatesNeverLeft ==
    /\ JobStateTransitions
    /\ [][InAttempt /\ job_state \in {"Terminated", "TimedOut", "Error"} =>
             job_state' = job_state]_vars

\* C17, amended: the transitions above; TimedOut and Error are not left before
\* the attempt is over, and Terminated is left only for Error, by a raising
\* log fetch.
C17_TerminatedLeftOnlyByFailedLogFetch ==
    /\ JobStateTransitions
    /\ [][InAttempt /\ job_state \in {"TimedOut", "Error"} => job_state' = job_state]_vars
    /\ [][InAttempt /\ job_state = "Terminated" /\ job_state' # "Terminated" =>
             job_state' = "Error" /\ last_call' = Call("logs", idx, TRUE)]_vars

\* C17 witness: the job was seen terminated, then its log fetch raised.
C17_Witness ==
    /\ pc = "finally" /\ job_state = "Error"
    /\ last_call = Call("logs", idx, TRUE) /\ calls.get >= 2

=========================================================================
